---- MODULE Spec2Model ----
(***************************************************************************)
(* Model of csdk_build_parameters_extractor (src/src/main.rs).             *)
(*                                                                         *)
(* The program is one sequential `main`: it changes the working directory  *)
(* to the application path, stages TARGET / BOLOS_SDK for the device, runs *)
(* `make --trace --dry-run`, restores the working directory, creates the   *)
(* two artifacts, emits the tokens of the first line containing            *)
(* `clang -c`, and compares the artifacts with the reference files.        *)
(*                                                                         *)
(* Text (the trace, the tokens, the contents of files) is a sequence of    *)
(* one-character strings, so that prefix tests, trimming and splitting are *)
(* computed as the code computes them.                                     *)
(*                                                                         *)
(* The file system is the function fs from resolved paths to contents; a   *)
(* relative path resolves against the working directory of the moment.     *)
(* Failures of the operating system on the original directory (creating or *)
(* writing an artifact, returning to the directory) are outside the model: *)
(* the fatal exits modelled are those of the application path, the device, *)
(* the SDK variable, the spawn of make, a malformed -D token and a missing *)
(* reference file.                                                         *)
(***************************************************************************)
EXTENDS Integers, Sequences, FiniteSets, TLC

VARIABLES pc, device, app_path_ok, cwd, cur_dir, env, make_invoked,
          make_status, s_out, fs, define_file, cflags_file, line_idx,
          word_idx, ref_define_contents, ref_cflags_contents, stderr,
          exit_code, cause

vars == <<pc, device, app_path_ok, cwd, cur_dir, env, make_invoked,
          make_status, s_out, fs, define_file, cflags_file, line_idx,
          word_idx, ref_define_contents, ref_cflags_contents, stderr,
          exit_code, cause>>

----------------------------------------------------------------------------
(* Bounds of the explored inputs.                                          *)

\* longest run of tokens that follows `clang -c` on a generated compile line
MaxTokens == 2
\* largest number of lines that precede the compile line in a generated trace
MaxNoise == 1

----------------------------------------------------------------------------
(* Text primitives (Rust str methods used by main).                        *)

\* concatenation of a sequence of texts
RECURSIVE Concat(_)
Concat(ss) == IF ss = <<>> THEN <<>> ELSE Head(ss) \o Concat(Tail(ss))

\* str::starts_with
StartsWith(s, p) == Len(s) >= Len(p) /\ SubSeq(s, 1, Len(p)) = p

\* str::contains
Contains(s, p) ==
    \E i \in 1..(Len(s) - Len(p) + 1) : SubSeq(s, i, i + Len(p) - 1) = p

\* str::trim_start_matches: removes the prefix repeatedly, as long as it
\* matches; Reps is the number of leading repetitions of p in s
Reps(s, p) ==
    LET Rep(k) == \A j \in 0..(k - 1) :
                     SubSeq(s, j * Len(p) + 1, (j + 1) * Len(p)) = p
        ks     == { k \in 0..(Len(s) \div Len(p)) : Rep(k) }
    IN  CHOOSE k \in ks : \A m \in ks : m <= k

TrimStartMatches(s, p) ==
    IF p = <<>> THEN s ELSE SubSeq(s, Reps(s, p) * Len(p) + 1, Len(s))

\* the positions of s, in increasing order, that belong to the set ps
Ordered(ps) ==
    [k \in 1..Cardinality(ps) |->
        CHOOSE i \in ps : Cardinality({j \in ps : j < i}) = k - 1]

\* str::split(char): every occurrence of c separates two (possibly empty) parts
Split(s, c) ==
    LET seps == Ordered({i \in 1..Len(s) : s[i] = c})
        m    == Len(seps)
        From(k) == IF k = 1 THEN 1 ELSE seps[k - 1] + 1
        To(k)   == IF k = m + 1 THEN Len(s) ELSE seps[k] - 1
    IN  [k \in 1..(m + 1) |-> SubSeq(s, From(k), To(k))]

\* the characters char::is_whitespace accepts, among those of the model
Whitespace == {" ", "\t", "\n", "\r"}

\* str::split_whitespace: the maximal non-empty runs of non-whitespace
SplitWhitespace(s) ==
    LET IsWs(i) == s[i] \in Whitespace
        starts  == Ordered({i \in 1..Len(s) :
                              ~IsWs(i) /\ (i = 1 \/ IsWs(i - 1))})
        EndOf(i) == CHOOSE j \in i..Len(s) :
                      /\ \A h \in i..j : ~IsWs(h)
                      /\ (j = Len(s) \/ IsWs(j + 1))
    IN  [k \in 1..Len(starts) |-> SubSeq(s, starts[k], EndOf(starts[k]))]

\* str::lines: lines end at "\n" (a "\r" before it is dropped too); a final
\* line needs no terminator, and a terminator at the end opens no empty line
StripCr(l) ==
    IF l # <<>> /\ l[Len(l)] = "\r" THEN SubSeq(l, 1, Len(l) - 1) ELSE l

Lines(s) ==
    LET parts == Split(s, "\n")
        n     == Len(parts)
    IN  [i \in 1..(IF parts[n] = <<>> THEN n - 1 ELSE n) |->
            IF i < n THEN StripCr(parts[i]) ELSE parts[i]]

----------------------------------------------------------------------------
(* Devices (the match of main, lines 115-137).                             *)

DeviceTags == {"nanox", "nanosplus", "stax", "flex", "apex_p"}

\* the value main gives TARGET for a device
TargetOf(d) ==
    CASE d = "nanox"     -> "nanox"
      [] d = "nanosplus" -> "nanos2"
      [] d = "stax"      -> "stax"
      [] d = "flex"      -> "flex"
      [] d = "apex_p"    -> "apex_p"

\* the environment variable main reads the SDK root from
SdkVarOf(d) ==
    CASE d = "nanox"     -> "NANOX_SDK"
      [] d = "nanosplus" -> "NANOSP_SDK"
      [] d = "stax"      -> "STAX_SDK"
      [] d = "flex"      -> "FLEX_SDK"
      [] d = "apex_p"    -> "APEX_P_SDK"

\* the panic message of the default arm: the tags its text names
UnsupportedDeviceMsg ==
    [text |-> "Unsupported device type. Supported types are:",
     tags |-> {"nanox", "nanosplus", "stax", "flex"}]

----------------------------------------------------------------------------
(* Classification and emission of one word (main, lines 156-181).          *)

\* the marker that selects the compile line
ClangC == <<"c", "l", "a", "n", "g", " ", "-", "c">>

DashD == <<"-", "D">>
DashI == <<"-", "I">>
Dash == <<"-">>
DefinePrefix == <<"#", "d", "e", "f", "i", "n", "e", " ">>
Newline == <<"\n">>

\* the marker shortened to the compiler's name
IsCompileLineClangOnly(line) == Contains(line, <<"c", "l", "a", "n", "g">>)

\* `line.contains("clang -c")`
IsCompileLine(line) == Contains(line, ClangC)

\* the chain with the generic `-` test ahead of the `-I` test
ClassOfDashFirst(word) ==
    IF StartsWith(word, DashD) THEN "define"
    ELSE IF StartsWith(word, Dash) THEN "cflag"
    ELSE IF StartsWith(word, DashI) THEN "include"
    ELSE "other"

\* the if / else-if chain over a word: the first test that succeeds decides
ClassOf(word) ==
    IF StartsWith(word, DashD) THEN "define"
    ELSE IF StartsWith(word, DashI) THEN "include"
    ELSE IF StartsWith(word, Dash) THEN "cflag"
    ELSE "other"

\* the split stopped after the first `=`, as splitn(2, '=') would
DefinePartsSplitN(word) ==
    LET r  == TrimStartMatches(word, DashD)
        es == {i \in 1..Len(r) : r[i] = "="}
    IN  IF es = {} THEN <<r>>
        ELSE LET e == CHOOSE i \in es : \A j \in es : i <= j
             IN  <<SubSeq(r, 1, e - 1), SubSeq(r, e + 1, Len(r))>>

\* `word.trim_start_matches("-D").split('=').collect()`
DefineParts(word) == Split(TrimStartMatches(word, DashD), "=")

\* the two-part arm writing the token's `=` back instead of a space
DefineBodyEq(v) ==
    IF Len(v) = 1 THEN v[1] ELSE v[1] \o <<"=">> \o v[2]

\* what the arms of `match v.len()` write between "#define " and the newline
DefineBody(v) ==
    IF Len(v) = 1 THEN v[1] ELSE v[1] \o <<" ">> \o v[2]

\* the emission with the length of v checked before anything is written
DefineOutputChecked(v) ==
    IF Len(v) \in {1, 2}
    THEN DefinePrefix \o DefineBody(v) \o Newline
    ELSE <<>>

\* lines 163-169: what reaches the .defines file for the parts v; the
\* prefix is written before the match, so the panic arm leaves it behind
DefineOutput(v) ==
    IF Len(v) \in {1, 2}
    THEN DefinePrefix \o DefineBody(v) \o Newline
    ELSE DefinePrefix

\* `writeln!(cflags_file, "{}", word)`
CflagLine(word) == word \o Newline

\* `format!("./c_sdk_build_{}.defines", device)` and its .cflags twin
ArtifactName(d, ext) == <<"c_sdk_build_", d, ext>>

\* a relative path resolves against the working directory of the moment
Resolve(dir, name) == <<dir, name>>

----------------------------------------------------------------------------
(* Inputs: the command line, the ambient environment, the output of make   *)
(* and the reference files.                                                *)

\* the directory the process starts in, and the one --app-path names
OrigDir == "orig"
AppDir == "app"

\* a device value outside the accepted five
UnknownDevice == "nanos"

Vocab ==
    { <<"-", "D", "A">>,
      <<"-", "D", "A", "=">>,
      <<"-", "D", "A", "=", "b">>,
      <<"-", "D", "A", "=", "b", "=", "c">>,
      <<"-", "D", "-", "D", "A">>,
      <<"-", "I", "/", "x">>,
      <<"-", "W", "a", "l", "l">> }

TokenSeqs == UNION { [1..k -> Vocab] : k \in 0..MaxTokens }

\* a line that holds `clang` and flags but not the marker `clang -c`
NoiseLine ==
    <<"e", "c", "h", "o", " ", "c", "l", "a", "n", "g", " ", "-", "D", "E",
      " ", "-", "W", "e">>

\* a second compile line, after the selected one
LateLine ==
    <<"c", "l", "a", "n", "g", " ", "-", "c", " ", "-", "D", "L", " ", "-",
      "W", "l">>

\* the compile line of the end-to-end scenario (spec, section 8, scenario 1)
ScenarioLine ==
    <<"c", "l", "a", "n", "g", " ", "-", "c", " ", "-", "D", "H", "A", "V",
      "E", "_", "A", "E", "S", " ", "-", "D", "A", "P", "P", "V", "E", "R",
      "S", "I", "O", "N", "=", "\\", "\"", "1", ".", "0", "\\", "\"", " ",
      "-", "I", "/", "s", "d", "k", "/", "i", "n", "c", "l", "u", "d", "e",
      " ", "-", "W", "a", "l", "l", " ", "-", "o", " ", "f", "o", "o", ".",
      "o", " ", "f", "o", "o", ".", "c">>

CompileLine(toks) ==
    ClangC \o Concat([i \in 1..Len(toks) |-> <<" ">> \o toks[i]])

Noise(n) == Concat([i \in 1..n |-> NoiseLine \o Newline])

\* what make may print: noise, then possibly a compile line, then possibly
\* a later compile line; and the scenario's one-line trace
Traces ==
    { Noise(n) : n \in 0..(MaxNoise + 1) }
    \cup { Noise(n) \o CompileLine(t) \o Newline \o post :
             n \in 0..MaxNoise, t \in TokenSeqs,
             post \in {<<>>, LateLine \o Newline} }
    \cup { ScenarioLine \o Newline }

\* the exit statuses of make: success and failure
MakeStatuses == {0, 2}

\* a reference file whose content no run of the model emits
Stale == <<"s", "t", "a", "l", "e">>

\* absent file
NoFile == <<"<absent>">>

\* a contents variable main has not assigned yet
NotRead == <<"<unread>">>

\* what `references/<name>` may hold beside a current content
RefChoices(curr) == {NoFile, curr, Stale}

----------------------------------------------------------------------------
(* The program.                                                            *)

Running == -1
PanicCode == 101

Init ==
    /\ pc = "set_dir"
    /\ device \in DeviceTags \cup {UnknownDevice}
    /\ app_path_ok \in BOOLEAN
    /\ cwd = OrigDir
    /\ cur_dir = OrigDir
    /\ env = [TARGET |-> "unset", BOLOS_SDK |-> "unset"]
    /\ make_invoked = FALSE
    /\ make_status = Running
    /\ s_out = <<>>
    /\ fs = <<>>
    /\ define_file = <<>>
    /\ cflags_file = <<>>
    /\ line_idx = 1
    /\ word_idx = 1
    /\ ref_define_contents = NotRead
    /\ ref_cflags_contents = NotRead
    /\ stderr = <<>>
    /\ exit_code = Running
    /\ cause = "none"

\* a panic: one message on stderr, exit status 101, nothing else changes
Panic(msg, c) ==
    /\ pc' = "fatal"
    /\ stderr' = Append(stderr, msg)
    /\ exit_code' = PanicCode
    /\ cause' = c

\* line 113: env::set_current_dir(path).expect(..)
SetCurrentDir ==
    /\ pc = "set_dir"
    /\ IF app_path_ok
       THEN /\ cwd' = AppDir
            /\ pc' = "match_device"
            /\ UNCHANGED <<stderr, exit_code, cause>>
       ELSE /\ Panic([text |-> "Failed to set current directory"], "set_dir")
            /\ UNCHANGED cwd
    /\ UNCHANGED <<device, app_path_ok, cur_dir, env, make_invoked,
                   make_status, s_out, fs, define_file, cflags_file,
                   line_idx, word_idx, ref_define_contents,
                   ref_cflags_contents>>

\* lines 115-137: the match over the device; sdk is what env::var returns
MatchDevice ==
    /\ pc = "match_device"
    /\ IF device \in DeviceTags
       THEN \E sdk \in {"unset", "/sdk"} :
              IF sdk = "unset"
              THEN /\ env' = [env EXCEPT !.TARGET = TargetOf(device)]
                   /\ Panic([text |-> "called Result::unwrap() on an Err value",
                             var |-> SdkVarOf(device)], "sdk_env")
              ELSE /\ env' = [TARGET |-> TargetOf(device), BOLOS_SDK |-> sdk]
                   /\ pc' = "make"
                   /\ UNCHANGED <<stderr, exit_code, cause>>
       ELSE /\ Panic(UnsupportedDeviceMsg, "device")
            /\ UNCHANGED env
    /\ UNCHANGED <<device, app_path_ok, cwd, cur_dir, make_invoked,
                   make_status, s_out, fs, define_file, cflags_file,
                   line_idx, word_idx, ref_define_contents,
                   ref_cflags_contents>>

\* lines 139-144: Command::new("make")..output().expect(..); the status of
\* the child is stored in `output` and never read
RunMake ==
    /\ pc = "make"
    /\ \E spawned \in BOOLEAN :
         IF spawned
         THEN \E t \in Traces, st \in MakeStatuses :
                /\ make_invoked' = TRUE
                /\ make_status' = st
                /\ s_out' = t
                /\ pc' = "restore_dir"
                /\ UNCHANGED <<stderr, exit_code, cause>>
         ELSE /\ Panic([text |-> "Failed to execute command"], "spawn")
              /\ UNCHANGED <<make_invoked, make_status, s_out>>
    /\ UNCHANGED <<device, app_path_ok, cwd, cur_dir, env, fs, define_file,
                   cflags_file, line_idx, word_idx, ref_define_contents,
                   ref_cflags_contents>>

\* the step without the call that restores the directory
RestoreDirSkipped ==
    /\ pc = "restore_dir"
    /\ pc' = "create_defines"
    /\ UNCHANGED <<device, app_path_ok, cwd, cur_dir, env, make_invoked,
                   make_status, s_out, fs, define_file, cflags_file,
                   line_idx, word_idx, ref_define_contents,
                   ref_cflags_contents, stderr, exit_code, cause>>

\* line 146: env::set_current_dir(cur_dir)
RestoreDir ==
    /\ pc = "restore_dir"
    /\ cwd' = cur_dir
    /\ pc' = "create_defines"
    /\ UNCHANGED <<device, app_path_ok, cur_dir, env, make_invoked,
                   make_status, s_out, fs, define_file, cflags_file,
                   line_idx, word_idx, ref_define_contents,
                   ref_cflags_contents, stderr, exit_code, cause>>

\* lines 148-149: File::create of the .defines artifact (created or truncated)
CreateDefines ==
    /\ pc = "create_defines"
    /\ LET p == Resolve(cwd, ArtifactName(device, ".defines"))
       IN  /\ fs' = (p :> <<>>) @@ fs
           /\ define_file' = p
    /\ pc' = "create_cflags"
    /\ UNCHANGED <<device, app_path_ok, cwd, cur_dir, env, make_invoked,
                   make_status, s_out, cflags_file, line_idx, word_idx,
                   ref_define_contents, ref_cflags_contents, stderr,
                   exit_code, cause>>

\* lines 151-152: File::create of the .cflags artifact
CreateCflags ==
    /\ pc = "create_cflags"
    /\ LET p == Resolve(cwd, ArtifactName(device, ".cflags"))
       IN  /\ fs' = (p :> <<>>) @@ fs
           /\ cflags_file' = p
    /\ pc' = "scan"
    /\ UNCHANGED <<device, app_path_ok, cwd, cur_dir, env, make_invoked,
                   make_status, s_out, define_file, line_idx, word_idx,
                   ref_define_contents, ref_cflags_contents, stderr,
                   exit_code, cause>>

\* lines 154-156: one turn of `for line in s_out.lines()`
ScanLine ==
    /\ pc = "scan"
    /\ LET ls == Lines(s_out)
       IN  IF line_idx > Len(ls)
           THEN /\ pc' = "diff"
                /\ UNCHANGED <<line_idx, word_idx>>
           ELSE IF IsCompileLine(ls[line_idx])
           THEN /\ pc' = "words"
                /\ word_idx' = 1
                /\ UNCHANGED line_idx
           ELSE /\ line_idx' = line_idx + 1
                /\ UNCHANGED <<pc, word_idx>>
    /\ UNCHANGED <<device, app_path_ok, cwd, cur_dir, env, make_invoked,
                   make_status, s_out, fs, define_file, cflags_file,
                   ref_define_contents, ref_cflags_contents, stderr,
                   exit_code, cause>>

\* the words of the selected line
Words == SplitWhitespace(Lines(s_out)[line_idx])

\* lines 157-180: the closure of for_each applied to one word
ProcessWord ==
    /\ pc = "words"
    /\ word_idx <= Len(Words)
    /\ LET word == Words[word_idx]
           v    == DefineParts(word)
       IN  CASE ClassOf(word) = "define" ->
                  IF Len(v) \in {1, 2}
                  THEN /\ fs' = [fs EXCEPT ![define_file] = @ \o DefineOutput(v)]
                       /\ word_idx' = word_idx + 1
                       /\ UNCHANGED <<pc, stderr, exit_code, cause>>
                  ELSE /\ fs' = [fs EXCEPT ![define_file] = @ \o DefineOutput(v)]
                       /\ Panic([text |-> "Unexpected format for define:",
                                 word |-> word], "define_format")
                       /\ UNCHANGED word_idx
              [] ClassOf(word) = "cflag" ->
                  /\ fs' = [fs EXCEPT ![cflags_file] = @ \o CflagLine(word)]
                  /\ word_idx' = word_idx + 1
                  /\ UNCHANGED <<pc, stderr, exit_code, cause>>
              [] OTHER ->
                  /\ word_idx' = word_idx + 1
                  /\ UNCHANGED <<pc, fs, stderr, exit_code, cause>>
    /\ UNCHANGED <<device, app_path_ok, cwd, cur_dir, env, make_invoked,
                   make_status, s_out, define_file, cflags_file, line_idx,
                   ref_define_contents, ref_cflags_contents>>

\* line 182: `break` once for_each has consumed the line
Break ==
    /\ pc = "words"
    /\ word_idx > Len(Words)
    /\ pc' = "diff"
    /\ UNCHANGED <<device, app_path_ok, cwd, cur_dir, env, make_invoked,
                   make_status, s_out, fs, define_file, cflags_file,
                   line_idx, word_idx, ref_define_contents,
                   ref_cflags_contents, stderr, exit_code, cause>>

\* std::fs::read_to_string of a relative path
ReadFile(name) ==
    LET p == Resolve(cwd, name)
    IN  IF p \in DOMAIN fs THEN fs[p] ELSE NoFile

\* the eprintln! of a mismatch
MismatchMsg(artifact, d) ==
    [text |-> "file does not match reference for target",
     artifact |-> artifact, device |-> d]

\* the second comparison chained to the first with `else if`
DiffReportElseIf(cd, rd, cc, rc, d) ==
    IF cd # rd THEN <<MismatchMsg("defines", d)>>
    ELSE IF cc # rc THEN <<MismatchMsg("cflags", d)>>
    ELSE <<>>

\* lines 197-203: the two independent comparisons
DiffReport(cd, rd, cc, rc, d) ==
    (IF cd # rd THEN <<MismatchMsg("defines", d)>> ELSE <<>>)
    \o (IF cc # rc THEN <<MismatchMsg("cflags", d)>> ELSE <<>>)

\* the exit status of a run whose main returns
ExitSuccess == 0

\* lines 186-205: the reference diff; rd and rc are what the reference
\* files hold. The four reads come first, each fatal when its file is absent
Diff ==
    /\ pc = "diff"
    /\ LET cd == ReadFile(ArtifactName(device, ".defines"))
           cc == ReadFile(ArtifactName(device, ".cflags"))
       IN  \E rd \in RefChoices(cd), rc \in RefChoices(cc) :
             IF cd = NoFile
             THEN /\ Panic([text |-> "Failed to read current defines file"],
                           "read_current")
                  /\ UNCHANGED <<ref_define_contents, ref_cflags_contents>>
             ELSE IF cc = NoFile
             THEN /\ Panic([text |-> "Failed to read current cflags file"],
                           "read_current")
                  /\ UNCHANGED <<ref_define_contents, ref_cflags_contents>>
             ELSE IF rd = NoFile
             THEN /\ Panic([text |-> "Failed to read reference defines file"],
                           "read_reference")
                  /\ ref_define_contents' = NoFile
                  /\ UNCHANGED ref_cflags_contents
             ELSE IF rc = NoFile
             THEN /\ Panic([text |-> "Failed to read reference cflags file"],
                           "read_reference")
                  /\ ref_define_contents' = rd
                  /\ ref_cflags_contents' = NoFile
             ELSE /\ ref_define_contents' = rd
                  /\ ref_cflags_contents' = rc
                  /\ stderr' = stderr \o DiffReport(cd, rd, cc, rc, device)
                  /\ exit_code' = ExitSuccess
                  /\ pc' = "done"
                  /\ UNCHANGED cause
    /\ UNCHANGED <<device, app_path_ok, cwd, cur_dir, env, make_invoked,
                   make_status, s_out, fs, define_file, cflags_file,
                   line_idx, word_idx>>

Next ==
    \/ SetCurrentDir
    \/ MatchDevice
    \/ RunMake
    \/ RestoreDir
    \/ CreateDefines
    \/ CreateCflags
    \/ ScanLine
    \/ ProcessWord
    \/ Break
    \/ Diff

Spec == Init /\ [][Next]_vars

----------------------------------------------------------------------------
(* Vocabulary of the properties: what the specification expects of a       *)
(* trace, stated over the text of the trace and not through the            *)
(* classification operators of the program.                                *)

TraceLines == Lines(s_out)

HasCompileLine == \E i \in 1..Len(TraceLines) : Contains(TraceLines[i], ClangC)

\* the tokens of the first line that contains `clang -c` (none without one)
SelectedTokens ==
    IF HasCompileLine
    THEN LET first == CHOOSE i \in 1..Len(TraceLines) :
                        /\ Contains(TraceLines[i], ClangC)
                        /\ \A j \in 1..(i - 1) : ~Contains(TraceLines[j], ClangC)
         IN  SplitWhitespace(TraceLines[first])
    ELSE <<>>

IsDToken(t) == Len(t) >= 2 /\ t[1] = "-" /\ t[2] = "D"
IsIToken(t) == Len(t) >= 2 /\ t[1] = "-" /\ t[2] = "I"
IsFlagToken(t) == Len(t) >= 1 /\ t[1] = "-" /\ ~IsDToken(t) /\ ~IsIToken(t)

EqPositions(t) == {i \in 1..Len(t) : t[i] = "="}
IsMalformed(t) == IsDToken(t) /\ Cardinality(EqPositions(t)) > 1

\* `#define name` or `#define name value` for a remainder r with at most one `=`
DefineLineOf(r) ==
    IF EqPositions(r) = {}
    THEN DefinePrefix \o r \o Newline
    ELSE LET e == CHOOSE i \in EqPositions(r) : TRUE
         IN  DefinePrefix \o SubSeq(r, 1, e - 1) \o <<" ">>
             \o SubSeq(r, e + 1, Len(r)) \o Newline

\* the remainder of a -D token: the token without its first two characters
StripOnce(t) == SubSeq(t, 3, Len(t))

\* the remainder the program works on: every leading `-D` removed
StripAll(t) == TrimStartMatches(t, DashD)

\* one line per -D token of toks, in order, remainder by remainder
ExpectedDefines(toks, Remainder(_)) ==
    Concat([i \in 1..Len(toks) |->
              IF IsDToken(toks[i]) THEN DefineLineOf(Remainder(toks[i]))
              ELSE <<>>])

\* one line per retained flag of toks, in order, verbatim
ExpectedCflags(toks) ==
    Concat([i \in 1..Len(toks) |->
              IF IsFlagToken(toks[i]) THEN toks[i] \o Newline ELSE <<>>])

\* the tokens before the first malformed -D token (all of them without one)
BeforeMalformed(toks) ==
    LET bad == {i \in 1..Len(toks) : IsMalformed(toks[i])}
    IN  IF bad = {} THEN toks
        ELSE SubSeq(toks, 1, (CHOOSE i \in bad : \A j \in bad : i <= j) - 1)

HasMalformed(toks) == \E i \in 1..Len(toks) : IsMalformed(toks[i])

ArtifactsExist == define_file \in DOMAIN fs /\ cflags_file \in DOMAIN fs
DefinesText == fs[define_file]
CflagsText == fs[cflags_file]

\* the loop over the trace is over and main went on to the reference diff
EmissionCompleted ==
    pc \in {"diff", "done"} \/ (pc = "fatal" /\ cause = "read_reference")

\* the run is over, one way or the other
Exited == pc \in {"done", "fatal"}

\* the loop over the trace is over, by completion or by the panic of line 167
EmissionEnded == EmissionCompleted \/ (pc = "fatal" /\ cause = "define_format")

----------------------------------------------------------------------------
(* C1 *)

\* C1: on every exit path the working directory at exit is the working
\* directory at entry.
C1_CwdRestoredAtExit == Exited => cwd = OrigDir

----------------------------------------------------------------------------
(* C2 *)

ScenarioTrace == ScenarioLine \o Newline

ScenarioDefinesUnescaped ==
    <<"#", "d", "e", "f", "i", "n", "e", " ", "H", "A", "V", "E", "_", "A",
      "E", "S", "\n", "#", "d", "e", "f", "i", "n", "e", " ", "A", "P", "P",
      "V", "E", "R", "S", "I", "O", "N", " ", "\"", "1", ".", "0", "\"",
      "\n">>

ScenarioDefinesVerbatim ==
    <<"#", "d", "e", "f", "i", "n", "e", " ", "H", "A", "V", "E", "_", "A",
      "E", "S", "\n", "#", "d", "e", "f", "i", "n", "e", " ", "A", "P", "P",
      "V", "E", "R", "S", "I", "O", "N", " ", "\\", "\"", "1", ".", "0",
      "\\", "\"", "\n">>

ScenarioCflagsWallOnly == <<"-", "W", "a", "l", "l", "\n">>

ScenarioCflagsAll ==
    <<"-", "c", "\n", "-", "W", "a", "l", "l", "\n", "-", "o", "\n">>

\* C2 (as stated): for the scenario's one-line trace, .defines is
\* `#define HAVE_AES` / `#define APPVERSION "1.0"` and .cflags is the single
\* line `-Wall`.
C2_ScenarioAsStated ==
    (s_out = ScenarioTrace /\ EmissionCompleted)
        => /\ DefinesText = ScenarioDefinesUnescaped
           /\ CflagsText = ScenarioCflagsWallOnly

\* C2 (amended): for the scenario's one-line trace, .defines is
\* `#define HAVE_AES` / `#define APPVERSION \"1.0\"` (the backslashes of the
\* token are kept) and .cflags is the three lines `-c`, `-Wall`, `-o`.
C2_ScenarioAmended ==
    (s_out = ScenarioTrace /\ EmissionCompleted)
        => /\ ArtifactsExist
           /\ DefinesText = ScenarioDefinesVerbatim
           /\ CflagsText = ScenarioCflagsAll

C2_Witness == s_out = ScenarioTrace /\ pc = "done"

----------------------------------------------------------------------------
(* C3 *)

\* C3: a device outside the five tags ends the run fatally with a non-zero
\* status and, where the match over the device is what rejects it, a
\* diagnostic that lists all five tags; no artifact is created and make is
\* never invoked.
C3_UnknownDeviceDiagnostic ==
    device \notin DeviceTags
        => /\ pc # "done"
           /\ ~make_invoked
           /\ DOMAIN fs = {}
           /\ (pc = "fatal" /\ cause = "device")
                => /\ exit_code # 0
                   /\ \E i \in 1..Len(stderr) :
                        /\ "tags" \in DOMAIN stderr[i]
                        /\ stderr[i].tags = DeviceTags

----------------------------------------------------------------------------
(* C4 *)

\* C4: when every -D token of the selected line has at most one `=`,
\* .defines is one line per -D token, in order, built from the token with
\* only its leading `-D` stripped; no other token contributes.
C4_DefinesStripOnce ==
    (EmissionCompleted /\ ~HasMalformed(SelectedTokens))
        => DefinesText = ExpectedDefines(SelectedTokens, StripOnce)

----------------------------------------------------------------------------
(* C5 *)

\* C5: a -D token with more than one `=` on the selected line is fatal: the
\* step that meets it panics with a non-zero status, and a run whose selected
\* line holds such a token never reaches the reference diff.
C5_MalformedDefineIsFatal ==
    /\ [](HasMalformed(SelectedTokens)
            => /\ ~EmissionCompleted
               /\ pc = "fatal" => (cause = "define_format" /\ exit_code # 0))
    /\ [][(pc = "words" /\ word_idx <= Len(SelectedTokens)
            /\ IsMalformed(SelectedTokens[word_idx]))
          => (pc' = "fatal" /\ exit_code' # 0 /\ exit_code' # Running)]_vars

C5_Witness ==
    /\ pc = "fatal"
    /\ cause = "define_format"
    /\ HasMalformed(SelectedTokens)

----------------------------------------------------------------------------
(* C6 *)

CflagsLines == Lines(CflagsText)

NoUnusedArg ==
    <<"-", "W", "n", "o", "-", "u", "n", "u", "s", "e", "d", "-", "c", "o",
      "m", "m", "a", "n", "d", "-", "l", "i", "n", "e", "-", "a", "r", "g",
      "u", "m", "e", "n", "t">>

\* C6 (as stated): for every selected compile line, once the loop over the
\* trace has ended, .cflags is exactly the retained flags of the line.
C6_CflagsAsStated ==
    (ArtifactsExist /\ EmissionEnded)
        => CflagsText = ExpectedCflags(SelectedTokens)

\* C6 (amended): when emission completes (no -D token of the selected line
\* has more than one `=`), .cflags is exactly the retained flags of the
\* line, in order, one per line; and at all times no line of .cflags is a
\* -I token of the line, none begins with anything but `-`, and none is
\* `-Wno-unused-command-line-argument` unless the line holds that token.
C6_CflagsAmended ==
    ArtifactsExist
        => /\ EmissionCompleted => CflagsText = ExpectedCflags(SelectedTokens)
           /\ \A i \in 1..Len(CflagsLines) :
                /\ StartsWith(CflagsLines[i], Dash)
                /\ ~IsIToken(CflagsLines[i])
                /\ ~IsDToken(CflagsLines[i])
                /\ CflagsLines[i] = NoUnusedArg
                     => \E k \in 1..Len(SelectedTokens) :
                          SelectedTokens[k] = NoUnusedArg

C6_Witness ==
    /\ pc = "done"
    /\ \E i, j \in 1..Len(SelectedTokens) :
         IsIToken(SelectedTokens[i]) /\ IsFlagToken(SelectedTokens[j]) /\ j > 1
    /\ Len(CflagsLines) = 2

----------------------------------------------------------------------------
(* C7 *)

MismatchLines(artifact) ==
    {i \in 1..Len(stderr) :
        /\ "artifact" \in DOMAIN stderr[i]
        /\ stderr[i].artifact = artifact
        /\ stderr[i].device = device}

\* C7: in the reference diff each artifact that differs from its reference
\* yields exactly one diagnostic line naming the artifact and the device,
\* independently of the other artifact, and the exit status stays 0; a
\* missing reference file is fatal with a non-zero status.
C7_ReferenceDiff ==
    /\ pc = "done"
         => /\ exit_code = 0
            /\ Cardinality(MismatchLines("defines")) =
                 (IF DefinesText # ref_define_contents THEN 1 ELSE 0)
            /\ Cardinality(MismatchLines("cflags")) =
                 (IF CflagsText # ref_cflags_contents THEN 1 ELSE 0)
            /\ Len(stderr) = Cardinality(MismatchLines("defines"))
                             + Cardinality(MismatchLines("cflags"))
    /\ (ref_define_contents = NoFile \/ ref_cflags_contents = NoFile)
         => (pc = "fatal" /\ exit_code # 0 /\ exit_code # Running)
    /\ pc = "done"
         => (ref_define_contents \notin {NoFile, NotRead}
             /\ ref_cflags_contents \notin {NoFile, NotRead})

C7_Witness ==
    /\ pc = "done"
    /\ DefinesText # ref_define_contents
    /\ CflagsText # ref_cflags_contents
    /\ Len(stderr) = 2
    /\ exit_code = 0

----------------------------------------------------------------------------
(* C8 *)

\* C8: only the first line containing `clang -c` contributes to the
\* artifacts: at any time they hold the emission of the tokens of that line
\* consumed so far and, when emission completes, of all of them; without
\* such a line both artifacts exist, are empty, and the run goes on to the
\* diff.
C8_FirstCompileLineOnly ==
    LET toks     == SelectedTokens
        consumed == IF pc = "words" \/ cause = "define_format"
                    THEN SubSeq(toks, 1, word_idx - 1)
                    ELSE IF EmissionCompleted THEN toks ELSE <<>>
    IN  /\ ArtifactsExist
             => /\ CflagsText = ExpectedCflags(consumed)
                /\ DefinesText =
                     ExpectedDefines(consumed, StripAll)
                     \o (IF cause = "define_format" THEN DefinePrefix ELSE <<>>)
        /\ EmissionCompleted => ArtifactsExist
        /\ pc = "words" => (HasCompileLine /\ Words = toks)
        /\ (make_invoked /\ ~HasCompileLine)
             => /\ cause \in {"none", "read_reference"}
                /\ ArtifactsExist => (DefinesText = <<>> /\ CflagsText = <<>>)

C8_Witness ==
    /\ pc = "done"
    /\ Len(TraceLines) = 3
    /\ Contains(TraceLines[2], ClangC)
    /\ Contains(TraceLines[3], ClangC)
    /\ DefinesText # <<>>
    /\ CflagsText # <<>>

----------------------------------------------------------------------------
(* C9 *)

\* C9: the working directory is restored after make has completed and before
\* either artifact is created, so the artifacts and the reference lookups
\* resolve against the original directory and never against the application
\* path; the status of make is never inspected, so a failing make stops
\* neither the restoration, nor the emission, nor the diff.
C9_RestoreBeforeEmission ==
    /\ \A p \in DOMAIN fs : p[1] = OrigDir
    /\ DOMAIN fs # {} => (make_invoked /\ cwd = OrigDir)
    /\ pc \in {"create_defines", "create_cflags", "scan", "words", "diff", "done"}
         => (make_invoked /\ cwd = OrigDir)
    /\ (make_invoked /\ pc = "fatal")
         => cause \in {"define_format", "read_reference"}

C9_Witness ==
    /\ pc = "done"
    /\ make_status # 0
    /\ ArtifactsExist
    /\ DefinesText # <<>>
    /\ define_file[1] = OrigDir

----------------------------------------------------------------------------
(* C10 *)

\* C10: at the abort on a malformed -D token both artifacts exist; .defines
\* holds the complete lines of the -D tokens that preceded it followed by an
\* unterminated `#define `, .cflags holds the lines of the retained flags
\* that preceded it, and the tokens after it contribute nothing.
C10_AbortKeepsPartialOutput ==
    (pc = "fatal" /\ cause = "define_format")
        => /\ ArtifactsExist
           /\ HasMalformed(SelectedTokens)
           /\ DefinesText =
                ExpectedDefines(BeforeMalformed(SelectedTokens), StripAll)
                \o DefinePrefix
           /\ CflagsText = ExpectedCflags(BeforeMalformed(SelectedTokens))

C10_Witness ==
    /\ pc = "fatal"
    /\ cause = "define_format"
    /\ Len(BeforeMalformed(SelectedTokens)) >= 2
    /\ Len(DefinesText) > Len(DefinePrefix)

====
